---- MODULE Spec2Model ----
(***************************************************************************)
(* Model of map_eras.py: the concurrent street-era extraction pipeline.    *)
(* A batch of street names is fanned out over a ThreadPoolExecutor; each   *)
(* worker runs process_street, which runs the retry wrapper around the     *)
(* recursive Wikipedia lookup; the main thread collects the futures as     *)
(* they complete into the street_eras dictionary.                          *)
(*                                                                         *)
(* Python strings that the code inspects (era tokens, century labels) are  *)
(* sequences of one-character strings.  Titles and era labels are only     *)
(* compared, so they are TLA+ strings.  Python's None / optional values    *)
(* are None == <<>> and Some(x) == <<x>>.                                  *)
(*                                                                         *)
(* Spec and FairSpec are the batch; CountSpec is the batch with the calls  *)
(* of wikipedia.page counted per future; PureSpec applies year_to_century, *)
(* century_to_era, the extraction and process_street to single arguments.  *)
(***************************************************************************)
EXTENDS Integers, Sequences, FiniteSets, TLC

\* ---------------------------------------------------------------- bounds
MaxNames == 2
MaxLimit == 2
MaxWorkers == 2
MaxYear == 9999
MaxCentury == 120
MaxTokens == 3

\* ------------------------------------------------------ program constants
MaxRecursion == 3
DefaultMaxRetries == 3

None == <<>>
Some(x) == <<x>>

\* ------------------------------------------------------------ EraClassifier
DigitChars == <<"0", "1", "2", "3", "4", "5", "6", "7", "8", "9">>

IsDigit(c) == \E d \in 1..10 : DigitChars[d] = c

DigitVal(c) == (CHOOSE d \in 1..10 : DigitChars[d] = c) - 1

\* str(n) for an integer n, as f"{century}" formats it
RECURSIVE NatToStr(_)
NatToStr(n) ==
    IF n < 10 THEN <<DigitChars[n + 1]>>
    ELSE NatToStr(n \div 10) \o <<DigitChars[(n % 10) + 1]>>

IntToStr(n) == IF n < 0 THEN <<"-">> \o NatToStr(0 - n) ELSE NatToStr(n)

\* int(s) for a string of decimal digits
RECURSIVE StrToInt(_)
StrToInt(s) ==
    IF s = <<>> THEN 0
    ELSE 10 * StrToInt(SubSeq(s, 1, Len(s) - 1)) + DigitVal(s[Len(s)])

\* re.search(r"(\d+)", s): the leftmost maximal run of digits, None if none
FirstDigitRun(s) ==
    IF \A i \in 1..Len(s) : ~IsDigit(s[i]) THEN None
    ELSE LET b == CHOOSE i \in 1..Len(s) :
                     IsDigit(s[i]) /\ \A j \in 1..(i - 1) : ~IsDigit(s[j])
             e == CHOOSE i \in b..Len(s) :
                     /\ \A j \in b..i : IsDigit(s[j])
                     /\ (i = Len(s) \/ ~IsDigit(s[i + 1]))
         IN  Some(SubSeq(s, b, e))

CenturyWord == <<" ", "c", "e", "n", "t", "u", "r", "y">>

OrdinalSuffix(century) ==
    LET k == IF century < 4 THEN century ELSE 4
    IN  IF k = 1 THEN <<"s", "t">>
        ELSE IF k = 2 THEN <<"n", "d">>
        ELSE IF k = 3 THEN <<"r", "d">>
        ELSE <<"t", "h">>

year_to_century(year) ==
    LET century == ((year - 1) \div 100) + 1
    IN  IntToStr(century) \o OrdinalSuffix(century) \o CenturyWord

\* century.lower().startswith('20th')
StartsWith20th(s) ==
    /\ Len(s) >= 4
    /\ s[1] = "2" /\ s[2] = "0"
    /\ s[3] \in {"t", "T"} /\ s[4] \in {"h", "H"}

\* the test for a "20th" label made before the range table is consulted
century_to_era_20th_first(century) ==
    LET m == FirstDigitRun(century)
    IN  IF m = None THEN "ParseError"
        ELSE LET century_num == StrToInt(m[1])
             IN  IF StartsWith20th(century) THEN "contemporary"
                 ELSE IF century_num \in 1..5 THEN "ancient"
                 ELSE IF century_num \in 6..15 THEN "medieval"
                 ELSE IF century_num \in 16..18 THEN "early modern"
                 ELSE IF century_num \in 19..20 THEN "modern"
                 ELSE "unknown"

\* the range table with the last century of 'modern' left out
century_to_era_short_modern(century) ==
    LET m == FirstDigitRun(century)
    IN  IF m = None THEN "ParseError"
        ELSE LET century_num == StrToInt(m[1])
             IN  IF century_num \in 1..5 THEN "ancient"
                 ELSE IF century_num \in 6..15 THEN "medieval"
                 ELSE IF century_num \in 16..18 THEN "early modern"
                 ELSE IF century_num \in 19..19 THEN "modern"
                 ELSE IF StartsWith20th(century) THEN "contemporary"
                 ELSE "unknown"

\* "ParseError" stands for the AttributeError raised when the label has no digit
century_to_era(century) ==
    LET m == FirstDigitRun(century)
    IN  IF m = None THEN "ParseError"
        ELSE LET century_num == StrToInt(m[1])
             IN  IF century_num \in 1..5 THEN "ancient"
                 ELSE IF century_num \in 6..15 THEN "medieval"
                 ELSE IF century_num \in 16..18 THEN "early modern"
                 ELSE IF century_num \in 19..20 THEN "modern"
                 ELSE IF StartsWith20th(century) THEN "contemporary"
                 ELSE "unknown"

\* ---------------------------------------------------------- ContentExtractor
\* Article text is a sequence of tokens, one per place a pattern can match:
\*   "century": "<digits>(st|nd|rd|th)? century", digits of length 1..2
\*   "year":    a free-standing 4-digit number
\*   "context": a sentence matching context template number tmpl
\*   "word":    anything else
Word == [kind |-> "word", digits |-> <<>>, tmpl |-> 0, phrase |-> ""]
CenturyTok(d) == [kind |-> "century", digits |-> d, tmpl |-> 0, phrase |-> ""]
YearTok(d) == [kind |-> "year", digits |-> d, tmpl |-> 0, phrase |-> ""]
ContextTok(t, p) == [kind |-> "context", digits |-> <<>>, tmpl |-> t, phrase |-> p]

\* the patterns of lines 37-38 and (context template t) of lines 41-45
CenturyPattern == [kind |-> "century", tmpl |-> 0]
YearPattern == [kind |-> "year", tmpl |-> 0]
ContextPattern(t) == [kind |-> "context", tmpl |-> t]

Matches(tok, pattern) == tok.kind = pattern.kind /\ tok.tmpl = pattern.tmpl

\* pattern.search(content): index of the leftmost match, 0 if none
Search(content, pattern) ==
    IF \E i \in 1..Len(content) : Matches(content[i], pattern)
    THEN CHOOSE i \in 1..Len(content) :
             /\ Matches(content[i], pattern)
             /\ \A j \in 1..(i - 1) : ~Matches(content[j], pattern)
    ELSE 0

\* the era token taken from whichever mention stands first in the text
ExtractEra_leftmost(content) ==
    LET c == Search(content, CenturyPattern)
        y == Search(content, YearPattern)
    IN  IF c # 0 /\ (y = 0 \/ c < y) THEN Some(content[c].digits)
        ELSE IF y # 0 THEN Some(year_to_century(StrToInt(content[y].digits)))
        ELSE None

\* the century pattern capturing the ordinal suffix in place of the digits
ExtractEra_suffix_group(content) ==
    LET c == Search(content, CenturyPattern)
        y == Search(content, YearPattern)
    IN  IF c # 0 THEN Some(<<"t", "h">>)
        ELSE IF y # 0 THEN Some(year_to_century(StrToInt(content[y].digits)))
        ELSE None

\* lines 52-60: the first pattern that matches gives the era token
ExtractEra(content) ==
    LET c == Search(content, CenturyPattern)
        y == Search(content, YearPattern)
    IN  IF c # 0 THEN
            LET era == content[c].digits
            IN  IF Len(era) = 4 THEN Some(year_to_century(StrToInt(era)))
                ELSE Some(era)
        ELSE IF y # 0 THEN
            LET era == content[y].digits
            IN  IF Len(era) = 4 THEN Some(year_to_century(StrToInt(era)))
                ELSE Some(era)
        ELSE None

\* the context taken from whichever template matches first in the text
ExtractContext_leftmost(content) ==
    IF \E i \in 1..Len(content) : content[i].kind = "context"
    THEN LET m == CHOOSE i \in 1..Len(content) :
                      /\ content[i].kind = "context"
                      /\ \A j \in 1..(i - 1) : content[j].kind # "context"
         IN  Some(content[m].phrase)
    ELSE None

\* lines 61-65: the first template, from number t on, that matches gives the context
RECURSIVE ExtractContextFrom(_, _)
ExtractContextFrom(content, t) ==
    IF t > 5 THEN None
    ELSE LET m == Search(content, ContextPattern(t))
         IN  IF m # 0 THEN Some(content[m].phrase)
             ELSE ExtractContextFrom(content, t + 1)

ExtractContext(content) == ExtractContextFrom(content, 1)

\* ------------------------------------------------------- knowledge source
Streets == {"Main St", "Oak St"}

\* the city the batch is run for (parameter city_name, line 109)
city_name == "Athens"

CandLists == {<<>>, <<"Cand1", "Cand2">>}

Articles ==
    { <<Word>>,
      <<Word, CenturyTok(<<"1", "2">>), ContextTok(3, "the king")>>,
      <<YearTok(<<"1", "9", "0", "1">>), Word>> }

Found(a) == [kind |-> "Found", text |-> a, options |-> <<>>]
Ambiguous(c) == [kind |-> "Ambiguous", text |-> <<>>, options |-> c]
NotFound == [kind |-> "NotFound", text |-> <<>>, options |-> <<>>]
TransientError == [kind |-> "TransientError", text |-> <<>>, options |-> <<>>]

\* lines 52-66 applied to each article of the source: (era, context), tabulated
\* once because the pair is a function of the article text alone
ExtractionRecord ==
    [a \in Articles |-> [era |-> ExtractEra(a), context |-> ExtractContext(a)]]

LookupResults ==
    {Found(a) : a \in Articles} \cup {Ambiguous(c) : c \in CandLists}
        \cup {NotFound, TransientError}

\* ------------------------------------------------------------------ state
VARIABLES
    input,        \* street names gathered from the graph edges (lines 113-119)
    limit,        \* parameter limit
    max_workers,  \* parameter max_workers
    det,          \* TRUE: a lookup's result depends only on the queried title
    counting,     \* TRUE: the history counts each future's lookups
    memo,         \* det only: the result the source has given for each title
    mainpc,       \* position of the main thread
    street_names, \* the truncated list
    tasks,        \* one entry per submitted future
    street_eras,  \* the result dictionary
    progress,     \* progress_bar.n
    total,        \* progress_bar.total
    returned,     \* the value returned by the batch function
    hist,         \* history: per future, what has happened to it so far
    probe         \* a single call of one of the pure functions: argument and result

vars == <<input, limit, max_workers, det, counting, memo, mainpc, street_names,
          tasks, street_eras, progress, total, returned, hist, probe>>

\* what no step of the batch changes: its parameters, and the probe
config == <<input, limit, max_workers, det, counting, probe>>

\* the variables of the batch
batch == <<input, limit, max_workers, det, counting, memo, mainpc, street_names,
           tasks, street_eras, progress, total, returned, hist>>

RECURSIVE SeqsUpTo(_, _)
SeqsUpTo(S, n) ==
    IF n = 0 THEN {<<>>}
    ELSE LET shorter == SeqsUpTo(S, n - 1)
         IN  shorter \cup {Append(s, x) : s \in {t \in shorter : Len(t) = n - 1}, x \in S}

NoResult == [exc |-> FALSE, value |-> None]

NoAnswer == [kind |-> "None", text |-> <<>>, options |-> <<>>]

\* starts: times handed to a worker; last: the latest answer the street has
\* received; writes: the keys of street_eras assigned for this future; calls:
\* the calls of wikipedia.page made for it (kept when counting)
NoProbe == [fn |-> "none", n |-> 0, arg |-> <<>>, out |-> None]

NoHist == [starts |-> 0, last |-> NoAnswer, writes |-> <<>>, calls |-> 0]

\* the state at the call of the batch function
Entry ==
    /\ input \in SeqsUpTo(Streets, MaxNames)
    /\ limit \in 1..MaxLimit
    /\ max_workers \in 1..MaxWorkers
    /\ det \in BOOLEAN
    /\ memo = <<>>
    /\ mainpc = "begin"
    /\ street_names = <<>>
    /\ tasks = <<>>
    /\ street_eras = <<>>
    /\ progress = 0
    /\ total = 0
    /\ returned = None
    /\ hist = <<>>
    /\ probe = NoProbe

Init == Entry /\ counting = FALSE

\* the same program, with each future's lookups counted
CountInit == Entry /\ counting = TRUE

\* ------------------------------------------------------------ main thread
\* the list handed on whole, the limit ignored
Truncate_none(names, n) == names

\* street_names[:limit]
Truncate(names, n) == SubSeq(names, 1, IF Len(names) < n THEN Len(names) ELSE n)

\* lines 121-127: truncate, create the dictionary, the pool and the progress bar
Begin ==
    /\ mainpc = "begin"
    /\ street_names' = Truncate(input, limit)
    /\ street_eras' = <<>>
    /\ total' = Len(Truncate(input, limit))
    /\ progress' = 0
    /\ mainpc' = "submit"
    /\ UNCHANGED <<config, memo, tasks, returned, hist>>

\* line 130: executor.submit(process_street, street, city_name) for the next street
Submit ==
    /\ mainpc = "submit"
    /\ Len(tasks) < Len(street_names)
    /\ tasks' = Append(tasks,
                    [status |-> "Pending", pc |-> "idle",
                     street |-> street_names[Len(tasks) + 1],
                     query |-> street_names[Len(tasks) + 1],
                     city |-> city_name,
                     recursion_count |-> 0, retry_count |-> 0,
                     result |-> NoResult])
    /\ hist' = Append(hist, NoHist)
    /\ UNCHANGED <<config, memo, mainpc, street_names, street_eras, progress,
                   total, returned>>

\* line 130 done, line 131: as_completed(futures) starts
Submitted ==
    /\ mainpc = "submit"
    /\ Len(tasks) = Len(street_names)
    /\ mainpc' = "collect"
    /\ UNCHANGED <<config, memo, street_names, tasks, street_eras, progress,
                   total, returned, hist>>

InFlight == {i \in DOMAIN tasks : tasks[i].status = "InFlight"}

\* a pool that starts a thread for every queued work item
CanStart_unbounded(i) ==
    /\ tasks[i].status = "Pending"
    /\ \A j \in 1..(i - 1) : tasks[j].status # "Pending"

\* a pool that queues a skipped street again
CanStart_requeues(i) ==
    /\ tasks[i].status \in {"Pending", "Skipped"}
    /\ \A j \in 1..(i - 1) : tasks[j].status # "Pending"
    /\ Cardinality(InFlight) < max_workers

\* a pool thread takes the oldest queued work item; the pool has max_workers threads
CanStart(i) ==
    /\ tasks[i].status = "Pending"
    /\ \A j \in 1..(i - 1) : tasks[j].status # "Pending"
    /\ Cardinality(InFlight) < max_workers

\* line 125/130: a worker begins process_street -> retry wrapper (line 103, 78)
Start(i) ==
    /\ CanStart(i)
    /\ tasks' = [tasks EXCEPT ![i].status = "InFlight", ![i].pc = "sleep"]
    /\ hist' = [hist EXCEPT ![i].starts = @ + 1]
    /\ UNCHANGED <<config, memo, mainpc, street_names, street_eras, progress,
                   total, returned>>

\* ---------------------------------------------------------------- worker
\* line 82: time.sleep(random.uniform(0.1, 0.5)), then line 84 calls the lookup
\* with the wrapper's street_name and recursion_count = 0
Sleep(i) ==
    /\ tasks[i].status = "InFlight"
    /\ tasks[i].pc = "sleep"
    /\ tasks' = [tasks EXCEPT ![i].pc = "page",
                              ![i].query = tasks[i].street,
                              ![i].recursion_count = 0]
    /\ UNCHANGED <<config, memo, mainpc, street_names, street_eras, progress,
                   total, returned, hist>>

\* line 48: query = f"{street_name}, {city_name}", from the lookup's parameters
Query(t) == <<t.query, t.city>>

\* the knowledge source answers r to the query q
Answers(q, r) ==
    /\ r \in LookupResults
    /\ (det /\ q \in DOMAIN memo) => r = memo[q]

Remember(q, r) == IF det THEN (q :> r) @@ memo ELSE memo

\* process_street emitting a placeholder record when no era token was found
process_street_placeholder(street, era, context) ==
    IF era # None /\ era[1] # <<>> THEN
        [exc |-> FALSE,
         value |-> Some([street |-> street,
                         data |-> [era |-> century_to_era(era[1]), context |-> context]])]
    ELSE [exc |-> FALSE,
          value |-> Some([street |-> street,
                          data |-> [era |-> "unknown", context |-> None]])]

\* lines 103-107: process_street on the pair returned by the retry wrapper
process_street(street, era, context) ==
    IF era # None /\ era[1] # <<>> THEN
        LET century_era == century_to_era(era[1])
        IN  IF century_era = "ParseError" THEN [exc |-> TRUE, value |-> None]
            ELSE [exc |-> FALSE,
                  value |-> Some([street |-> street,
                                  data |-> [era |-> century_era, context |-> context]])]
    ELSE NoResult

\* process_street keying its record by the title the article was found under
Return_keyed_by_query(t, era, context) ==
    [t EXCEPT !.status = "Completed", !.pc = "idle",
              !.query = t.street, !.recursion_count = 0, !.retry_count = 0,
              !.result = process_street(t.query, era, context)]

\* the wrapper returns (era, context): process_street finishes, the future is
\* done and the frames of the call chain (with their locals) are gone
Return(t, era, context) ==
    [t EXCEPT !.status = "Completed", !.pc = "idle",
              !.query = t.street, !.recursion_count = 0, !.retry_count = 0,
              !.result = process_street(t.street, era, context)]

\* the wrapper re-raising the exception once the retries are used up
RetryOrGiveUp_raises(t) ==
    IF t.retry_count < DefaultMaxRetries
    THEN [t EXCEPT !.retry_count = @ + 1, !.pc = "sleep"]
    ELSE [t EXCEPT !.status = "Completed", !.pc = "idle",
                   !.query = t.street, !.recursion_count = 0, !.retry_count = 0,
                   !.result = [exc |-> TRUE, value |-> None]]

\* the wrapper with the retry test off by one (<= in place of <)
RetryOrGiveUp_off_by_one(t) ==
    IF t.retry_count <= DefaultMaxRetries
    THEN [t EXCEPT !.retry_count = @ + 1, !.pc = "sleep"]
    ELSE Return(t, None, None)

\* lines 92-98: an exception other than DisambiguationError reached the wrapper
RetryOrGiveUp(t) ==
    IF t.retry_count < DefaultMaxRetries
    THEN [t EXCEPT !.retry_count = @ + 1, !.pc = "sleep"]
    ELSE Return(t, None, None)

\* the handler with the depth test off by one (<= in place of <)
OnDisambiguation_off_by_one(t, options) ==
    IF t.recursion_count <= MaxRecursion
    THEN IF options # <<>>
         THEN [t EXCEPT !.query = options[1], !.recursion_count = @ + 1]
         ELSE RetryOrGiveUp(t)
    ELSE Return(t, None, None)

\* the handler picking the last option in place of the first
OnDisambiguation_last_option(t, options) ==
    IF t.recursion_count < MaxRecursion
    THEN IF options # <<>>
         THEN [t EXCEPT !.query = options[Len(options)], !.recursion_count = @ + 1]
         ELSE RetryOrGiveUp(t)
    ELSE Return(t, None, None)

\* lines 67-73: the handler of DisambiguationError; e.options[0] of an empty
\* list raises IndexError, which leaves the lookup function (line 74 is a
\* sibling handler) and every enclosing recursive call, up to the wrapper
OnDisambiguation(t, options) ==
    IF t.recursion_count < MaxRecursion
    THEN IF options # <<>>
         THEN [t EXCEPT !.query = options[1], !.recursion_count = @ + 1]
         ELSE RetryOrGiveUp(t)
    ELSE Return(t, None, None)

\* the lookup letting the exception escape to the retry wrapper
OnError_escapes(t) == RetryOrGiveUp(t)

\* lines 74-76: any other exception of wikipedia.page is caught in the lookup
OnError(t) == Return(t, None, None)

\* the history of a future after answer r
Called(h, r) == [h EXCEPT !.last = r, !.calls = IF counting THEN @ + 1 ELSE @]

AtPage(i) == tasks[i].status = "InFlight" /\ tasks[i].pc = "page"

\* lines 49-66: wikipedia.page(query) returns a page
PageFound(i) ==
    /\ AtPage(i)
    /\ \E a \in Articles :
        /\ Answers(Query(tasks[i]), Found(a))
        /\ memo' = Remember(Query(tasks[i]), Found(a))
        /\ tasks' = [tasks EXCEPT ![i] = Return(@, ExtractionRecord[a].era,
                                                   ExtractionRecord[a].context)]
        /\ hist' = [hist EXCEPT ![i] = Called(@, Found(a))]
    /\ UNCHANGED <<config, mainpc, street_names, street_eras, progress, total,
                   returned>>

\* lines 49, 67-73: wikipedia.page(query) raises DisambiguationError
PageAmbiguous(i) ==
    /\ AtPage(i)
    /\ \E c \in CandLists :
        /\ Answers(Query(tasks[i]), Ambiguous(c))
        /\ memo' = Remember(Query(tasks[i]), Ambiguous(c))
        /\ tasks' = [tasks EXCEPT ![i] = OnDisambiguation(@, c)]
        /\ hist' = [hist EXCEPT ![i] = Called(@, Ambiguous(c))]
    /\ UNCHANGED <<config, mainpc, street_names, street_eras, progress, total,
                   returned>>

\* lines 49, 74-76: wikipedia.page(query) raises any other exception
PageError(i) ==
    /\ AtPage(i)
    /\ \E r \in {NotFound, TransientError} :
        /\ Answers(Query(tasks[i]), r)
        /\ memo' = Remember(Query(tasks[i]), r)
        /\ tasks' = [tasks EXCEPT ![i] = OnError(@)]
        /\ hist' = [hist EXCEPT ![i] = Called(@, r)]
    /\ UNCHANGED <<config, mainpc, street_names, street_eras, progress, total,
                   returned>>

\* ------------------------------------------------------------- collector
\* street_eras[street] = data
DictSet(d, k, v) == (k :> v) @@ d

\* the collector pairing the n-th finished future with the n-th street name
ResultKey_by_completion_order(i) == street_names[progress + 1]

\* line 134: street, data = result
ResultKey(i) == tasks[i].result.value[1].street

\* the update placed inside "if result:"
Advance_only_recorded(n, result) == IF result.value # None THEN n + 1 ELSE n

\* line 136: progress_bar.update(1), once per future yielded by as_completed
Advance(n, result) == n + 1

\* lines 131-136: one iteration of the as_completed loop, for a finished future;
\* future.result() re-raises an exception of the task, which leaves the function
Collect(i) ==
    /\ mainpc = "collect"
    /\ tasks[i].status = "Completed"
    /\ LET result == tasks[i].result
       IN  IF result.exc
           THEN /\ mainpc' = "aborted"
                /\ UNCHANGED <<tasks, street_eras, progress, hist>>
           ELSE /\ mainpc' = mainpc
                /\ progress' = Advance(progress, result)
                /\ IF result.value # None
                   THEN /\ street_eras' = DictSet(street_eras, ResultKey(i),
                                                  result.value[1].data)
                        /\ tasks' = [tasks EXCEPT ![i].status = "Recorded"]
                        /\ hist' = [hist EXCEPT ![i].writes = Append(@, ResultKey(i))]
                   ELSE /\ street_eras' = street_eras
                        /\ tasks' = [tasks EXCEPT ![i].status = "Skipped"]
                        /\ hist' = hist
    /\ UNCHANGED <<config, memo, street_names, total, returned>>

Terminal(i) == tasks[i].status \in {"Recorded", "Skipped"}

\* lines 137-139: every future has been yielded; close the bar, return the dictionary
Finish ==
    /\ mainpc = "collect"
    /\ \A i \in DOMAIN tasks : Terminal(i)
    /\ mainpc' = "done"
    /\ returned' = Some(street_eras)
    /\ UNCHANGED <<config, memo, street_names, tasks, street_eras, progress,
                   total, hist>>

Next ==
    \/ Begin
    \/ Submit
    \/ Submitted
    \/ Finish
    \/ \E i \in DOMAIN tasks : Start(i)
    \/ \E i \in DOMAIN tasks : Sleep(i)
    \/ \E i \in DOMAIN tasks : PageFound(i)
    \/ \E i \in DOMAIN tasks : PageAmbiguous(i)
    \/ \E i \in DOMAIN tasks : PageError(i)
    \/ \E i \in DOMAIN tasks : Collect(i)

Spec == Init /\ [][Next]_vars

CountSpec == CountInit /\ [][Next]_vars

\* the pool's threads and the main thread keep running
FairSpec ==
    /\ Spec
    /\ WF_vars(Begin) /\ WF_vars(Submit) /\ WF_vars(Submitted) /\ WF_vars(Finish)
    /\ \A i \in 1..MaxLimit :
        /\ WF_vars(i \in DOMAIN tasks /\ Start(i))
        /\ WF_vars(i \in DOMAIN tasks /\ Sleep(i))
        /\ WF_vars(i \in DOMAIN tasks /\ (PageFound(i) \/ PageAmbiguous(i) \/ PageError(i)))
        /\ WF_vars(i \in DOMAIN tasks /\ Collect(i))

\* ------------------------------------------------- the functions on their own
\* the labels century_to_era is given: the integer c written in decimal (also
\* with a leading zero), alone or followed by an ordinal suffix and " century"
Suffixes == {<<>>, <<"s", "t">>, <<"n", "d">>, <<"r", "d">>, <<"t", "h">>, <<"T", "H">>}

LabelsOf(c) ==
    {pre \o NatToStr(c) \o suf \o tail :
        pre \in {<<>>, <<"0">>}, suf \in Suffixes, tail \in {<<>>, CenturyWord}}

\* the places of an article a pattern can match at
Tokens ==
    { Word,
      CenturyTok(<<"7">>), CenturyTok(<<"2", "0">>), CenturyTok(<<"0">>),
      YearTok(<<"1", "8", "4", "8">>), YearTok(<<"0", "0", "0", "0">>),
      ContextTok(1, "X"), ContextTok(1, "W"), ContextTok(3, "Y"), ContextTok(5, "Z") }

Contents == SeqsUpTo(Tokens, MaxTokens)

Probes ==
    {[fn |-> "year_to_century", n |-> y, arg |-> y, out |-> None] : y \in 0..MaxYear}
        \cup {[fn |-> "year_era", n |-> y, arg |-> y, out |-> None] : y \in 0..MaxYear}
        \cup UNION {{[fn |-> "century_to_era", n |-> c, arg |-> l, out |-> None] :
                        l \in LabelsOf(c)} : c \in 0..MaxCentury}
        \cup {[fn |-> "extract", n |-> 0, arg |-> a, out |-> None] : a \in Contents}
        \cup {[fn |-> "process_street", n |-> 0, arg |-> a, out |-> None] : a \in Contents}

\* no batch is running
Idle ==
    /\ input = <<>>
    /\ limit = 1
    /\ max_workers = 1
    /\ det = FALSE
    /\ counting = FALSE
    /\ memo = <<>>
    /\ mainpc = "begin"
    /\ street_names = <<>>
    /\ tasks = <<>>
    /\ street_eras = <<>>
    /\ progress = 0
    /\ total = 0
    /\ returned = None
    /\ hist = <<>>

PureInit == Idle /\ probe \in Probes

Unapplied(fn) == probe.fn = fn /\ probe.out = None

\* lines 13-17
ApplyYearToCentury ==
    /\ Unapplied("year_to_century")
    /\ probe' = [probe EXCEPT !.out = Some(year_to_century(probe.arg))]
    /\ UNCHANGED batch

\* lines 19-31
ApplyCenturyToEra ==
    /\ Unapplied("century_to_era")
    /\ probe' = [probe EXCEPT !.out = Some(century_to_era(probe.arg))]
    /\ UNCHANGED batch

\* lines 59 and 105: the era of the century of a year
ApplyYearEra ==
    /\ Unapplied("year_era")
    /\ probe' = [probe EXCEPT !.out = Some(century_to_era(year_to_century(probe.arg)))]
    /\ UNCHANGED batch

\* lines 52-66: (era, context) of an article's content
ApplyExtract ==
    /\ Unapplied("extract")
    /\ probe' = [probe EXCEPT !.out = Some([era |-> ExtractEra(probe.arg),
                                            context |-> ExtractContext(probe.arg)])]
    /\ UNCHANGED batch

\* lines 103-107 on the pair extracted from an article's content
ApplyProcessStreet ==
    /\ Unapplied("process_street")
    /\ probe' = [probe EXCEPT !.out = Some(process_street("Main St",
                                               ExtractEra(probe.arg),
                                               ExtractContext(probe.arg)))]
    /\ UNCHANGED batch

PureNext ==
    \/ ApplyYearToCentury
    \/ ApplyCenturyToEra
    \/ ApplyYearEra
    \/ ApplyExtract
    \/ ApplyProcessStreet

PureSpec == PureInit /\ [][PureNext]_vars

TypeOK ==
    /\ mainpc \in {"begin", "submit", "collect", "done", "aborted"}
    /\ progress \in 0..MaxLimit
    /\ Len(tasks) <= Len(street_names)


\* ================================================================ claims
Finished(i) == tasks[i].status \in {"Completed", "Recorded", "Skipped"}

\* the latest answer to future i was an article from which an era token is extracted
FoundWithEra(i) ==
    /\ hist[i].last.kind = "Found"
    /\ ExtractEra(hist[i].last.text) # None

\* future i issues a lookup in this step (every answer changes its task state)
Looks(i) == AtPage(i) /\ tasks'[i] # tasks[i]

\* C1: a lookup answered TransientError while the wrapper has retries left is
\* issued again for the same street (the wrapper sleeps and calls again with
\* one more retry counted); the street's processing ends on a TransientError
\* only when the retry cap is used up.
TransientErrorRetried(i) ==
    (Looks(i) /\ hist'[i].last = TransientError) =>
        IF tasks[i].retry_count < DefaultMaxRetries
        THEN /\ tasks'[i].status = "InFlight"
             /\ tasks'[i].pc = "sleep"
             /\ tasks'[i].retry_count = tasks[i].retry_count + 1
        ELSE tasks'[i].status = "Completed"

TransientErrorIsRetried == [][\A i \in DOMAIN tasks : TransientErrorRetried(i)]_vars

\* C2: a street whose latest answer is Ambiguous (so any street that is only
\* ever answered Ambiguous) has no result and has written nothing to
\* street_eras; every Ambiguous answer below the depth cap makes
\* the next query the first candidate and counts one more level, the depth
\* never exceeds MaxRecursion, and an Ambiguous answer at the cap ends the
\* street's processing with no result (with an empty candidate list below the
\* cap the wrapper retries the street, DefaultMaxRetries times at most).
AmbiguousInv ==
    /\ \A i \in DOMAIN tasks :
        /\ tasks[i].recursion_count <= MaxRecursion
        /\ hist[i].last.kind \in {"None", "Ambiguous"} =>
            /\ hist[i].writes = <<>>
            /\ tasks[i].result = NoResult
    /\ \A s \in Streets :
        (\A i \in DOMAIN tasks :
            tasks[i].street = s => hist[i].last.kind \in {"None", "Ambiguous"})
            => s \notin DOMAIN street_eras

AmbiguousStep(i) ==
    (Looks(i) /\ hist'[i].last.kind = "Ambiguous") =>
        LET options == hist'[i].last.options
            t == tasks[i]
            u == tasks'[i]
        IN  IF t.recursion_count = MaxRecursion
            THEN u.status = "Completed" /\ u.result = NoResult
            ELSE IF options # <<>>
            THEN /\ u.status = "InFlight" /\ u.pc = "page"
                 /\ u.query = options[1]
                 /\ u.recursion_count = t.recursion_count + 1
                 /\ u.retry_count = t.retry_count
            ELSE IF t.retry_count < DefaultMaxRetries
            THEN /\ u.status = "InFlight" /\ u.pc = "sleep"
                 /\ u.retry_count = t.retry_count + 1
            ELSE u.status = "Completed" /\ u.result = NoResult

AmbiguousChainIsCut ==
    []AmbiguousInv /\ [][\A i \in DOMAIN tasks : AmbiguousStep(i)]_vars

AmbiguousChainIsCutWitness ==
    \E i \in DOMAIN tasks :
        /\ tasks[i].status = "Skipped"
        /\ hist[i].last.kind = "Ambiguous"
        /\ hist[i].last.options # <<>>
        /\ mainpc = "done"

\* C3: a street whose latest answer is NotFound is not in flight, has no
\* result and has written no entry, and NotFound stays its latest answer: no
\* further lookup is issued for it.
NotFoundInv ==
    \A i \in DOMAIN tasks :
        hist[i].last = NotFound =>
            /\ tasks[i].status \in {"Completed", "Skipped"}
            /\ tasks[i].result = NoResult
            /\ hist[i].writes = <<>>

NotFoundStep(i) == hist[i].last = NotFound => (~Looks(i) /\ hist'[i].last = NotFound)

NotFoundEndsTheStreet ==
    []NotFoundInv /\ [][\A i \in DOMAIN tasks : NotFoundStep(i)]_vars

NotFoundEndsTheStreetWitness ==
    \E i \in DOMAIN tasks :
        /\ tasks[i].status = "Skipped"
        /\ hist[i].last = NotFound
        /\ mainpc = "collect"

\* C4: when the batch has returned, a name is a key of street_eras exactly when
\* the chain of some submitted entry with that name ended in an article with an
\* era token, and its record is the era and context of such an article.
MappingIffEraExtracted ==
    mainpc = "done" =>
        /\ \A s \in Streets \cup DOMAIN street_eras :
            s \in DOMAIN street_eras <=>
                \E i \in DOMAIN tasks : street_names[i] = s /\ FoundWithEra(i)
        /\ \A s \in DOMAIN street_eras :
            \E i \in DOMAIN tasks :
                /\ street_names[i] = s
                /\ FoundWithEra(i)
                /\ street_eras[s] =
                       [era |-> century_to_era(ExtractEra(hist[i].last.text)[1]),
                        context |-> ExtractContext(hist[i].last.text)]
        /\ returned = Some(street_eras)

MappingIffEraExtractedWitness ==
    /\ mainpc = "done"
    /\ \E i, j \in DOMAIN tasks :
        /\ tasks[i].status = "Recorded"
        /\ tasks[j].status = "Skipped"
        /\ hist[j].last.kind = "Found"
        /\ street_names[j] \notin DOMAIN street_eras

\* C5: whatever the knowledge source answers, the batch is never aborted and
\* eventually has returned street_eras with every submitted street Recorded or
\* Skipped.
BatchReturned ==
    /\ mainpc = "done"
    /\ Len(tasks) = Len(Truncate(input, limit))
    /\ \A i \in DOMAIN tasks : Terminal(i)
    /\ returned = Some(street_eras)

BatchAlwaysReturns == [](mainpc # "aborted") /\ <>[]BatchReturned

BatchAlwaysReturnsWitness ==
    /\ mainpc = "done"
    /\ \E i, j \in DOMAIN tasks :
        /\ tasks[i].status = "Skipped"
        /\ hist[i].last = Ambiguous(<<>>)
        /\ tasks[j].status = "Recorded"

\* the result of one street's chain against the source recorded in memo, computed
\* on its own; a title the source was never asked yields a marker record
RECURSIVE Chain(_, _, _, _)
Chain(street, q, rc, retry) ==
    IF <<q, city_name>> \notin DOMAIN memo
    THEN [exc |-> FALSE, value |-> Some([street |-> "?", data |-> "unasked"])]
    ELSE LET r == memo[<<q, city_name>>]
         IN  IF r.kind = "Found"
             THEN process_street(street, ExtractEra(r.text), ExtractContext(r.text))
             ELSE IF r.kind = "Ambiguous" /\ rc < MaxRecursion /\ r.options # <<>>
             THEN Chain(street, r.options[1], rc + 1, retry)
             ELSE IF r.kind = "Ambiguous" /\ rc < MaxRecursion /\ retry < DefaultMaxRetries
             THEN Chain(street, street, 0, retry + 1)
             ELSE NoResult

\* the dictionary a one-by-one run over names builds from d
RECURSIVE SequentialRun(_, _)
SequentialRun(names, d) ==
    IF names = <<>> THEN d
    ELSE LET r == Chain(Head(names), Head(names), 0, 0)
         IN  SequentialRun(Tail(names),
                 IF r.value # None THEN (r.value[1].street :> r.value[1].data) @@ d
                 ELSE d)

\* C6: against a source whose answer depends only on the title, the returned
\* mapping is the one a one-by-one run over the list gives, for every pool size
\* and every interleaving.
DeterministicMapping ==
    (det /\ mainpc = "done") =>
        /\ street_eras = SequentialRun(street_names, <<>>)
        /\ returned = Some(street_eras)

DeterministicMappingWitness ==
    /\ det /\ mainpc = "done"
    /\ max_workers = 2
    /\ \E i, j \in DOMAIN tasks :
        /\ i < j
        /\ street_names[i] # street_names[j]
        /\ tasks[i].status = "Skipped"
        /\ tasks[j].status = "Recorded"
        /\ hist[i].last = Ambiguous(<<>>)

WroteKey(i, s) == \E k \in DOMAIN hist[i].writes : hist[i].writes[k] = s

\* C7 as stated: no two futures ever write the same key of street_eras.
NoKeyWrittenTwice ==
    \A i, j \in DOMAIN tasks :
        i # j => ~ \E s \in Streets : WroteKey(i, s) /\ WroteKey(j, s)

\* C7 amended: each future writes at most one entry, under its own street
\* name, so two futures write the same key only when their list entries carry
\* the same name; the keys of street_eras are the keys written.
OneWritePerFutureUnderItsName ==
    /\ \A i \in DOMAIN tasks :
        /\ Len(hist[i].writes) <= 1
        /\ \A k \in DOMAIN hist[i].writes : hist[i].writes[k] = street_names[i]
    /\ \A i, j \in DOMAIN tasks :
        (\E s \in DOMAIN street_eras : WroteKey(i, s) /\ WroteKey(j, s))
            => street_names[i] = street_names[j]
    /\ \A s \in DOMAIN street_eras : \E i \in DOMAIN tasks : WroteKey(i, s)

OneWritePerFutureUnderItsNameWitness ==
    \E i, j \in DOMAIN tasks :
        /\ i # j
        /\ street_names[i] = street_names[j]
        /\ hist[i].writes = <<street_names[i]>>
        /\ hist[j].writes = <<street_names[j]>>
        /\ hist[i].last # hist[j].last

\* C8: the number of streets in flight never exceeds the pool size.
PoolBound == Cardinality(InFlight) <= max_workers

PoolBoundWitness ==
    /\ max_workers = 1
    /\ \E i, j \in DOMAIN tasks :
        /\ tasks[i].status = "Pending"
        /\ tasks[j].status = "InFlight"
        /\ tasks[j].recursion_count > 0

\* C9: the progress counter is 0 at the start, equals the number of streets
\* that are Recorded or Skipped, never exceeds the total (the number of
\* submitted streets), equals it when the batch has returned, and each step
\* leaves it alone or adds 1, the latter exactly when a street becomes terminal.
ProgressInv ==
    /\ progress = Cardinality({i \in DOMAIN tasks : Terminal(i)})
    /\ progress <= total
    /\ mainpc = "begin" => progress = 0
    /\ mainpc # "begin" => total = Len(Truncate(input, limit))
    /\ mainpc = "done" => progress = total

ProgressStep ==
    /\ progress' \in {progress, progress + 1}
    /\ progress' = progress + 1 <=>
           \E i \in DOMAIN tasks :
               /\ tasks[i].status \notin {"Recorded", "Skipped"}
               /\ tasks'[i].status \in {"Recorded", "Skipped"}

ProgressCounts == []ProgressInv /\ [][ProgressStep]_vars

ProgressCountsWitness ==
    /\ mainpc = "done"
    /\ progress = 2
    /\ \E i, j \in DOMAIN tasks :
        tasks[i].status = "Skipped" /\ tasks[j].status = "Recorded"

\* C10: every submitted entry is handed to a worker at most once, its status
\* only moves Pending -> InFlight -> Completed -> (Recorded | Skipped), and once
\* its processing has ended no lookup is issued for it.
LifecycleInv ==
    \A i \in DOMAIN tasks :
        hist[i].starts = IF tasks[i].status = "Pending" THEN 0 ELSE 1

LifecycleStep ==
    \A i \in DOMAIN tasks :
        /\ <<tasks[i].status, tasks'[i].status>> \in
               { <<"Pending", "Pending">>, <<"Pending", "InFlight">>,
                 <<"InFlight", "InFlight">>, <<"InFlight", "Completed">>,
                 <<"Completed", "Completed">>, <<"Completed", "Recorded">>,
                 <<"Completed", "Skipped">>, <<"Recorded", "Recorded">>,
                 <<"Skipped", "Skipped">> }
        /\ Finished(i) =>
            /\ ~Looks(i)
            /\ hist'[i].starts = hist[i].starts
            /\ hist'[i].last = hist[i].last
            /\ tasks'[i].pc = "idle"

LifecycleOnce == []LifecycleInv /\ [][LifecycleStep]_vars

LifecycleOnceWitness ==
    \E i, j \in DOMAIN tasks :
        /\ tasks[i].status = "Recorded"
        /\ tasks[j].status = "Skipped"
        /\ hist[j].last = TransientError
        /\ tasks[j].street = tasks[i].street

\* C11: with n input names and limit L exactly the first min(n, L) entries are
\* submitted: never more than min(n, L) futures exist, once submission is over
\* there are exactly min(n, L), future i carries input[i], the progress total is
\* min(n, L), and every key of street_eras was written by one of those futures
\* for its own entry; an entry at a position past L has no future, so it is
\* never looked up and never counted.
Submittable == IF Len(input) < limit THEN Len(input) ELSE limit

TruncationInv ==
    /\ Len(tasks) <= Submittable
    /\ Len(hist) = Len(tasks)
    /\ mainpc \in {"collect", "done"} => Len(tasks) = Submittable
    /\ mainpc # "begin" =>
        /\ total = Submittable
        /\ Len(street_names) = Submittable
        /\ \A i \in 1..Submittable : street_names[i] = input[i]
    /\ progress <= Submittable
    /\ \A i \in DOMAIN tasks : i <= limit /\ tasks[i].street = input[i]
    /\ \A s \in DOMAIN street_eras :
        \E i \in 1..Submittable :
            i \in DOMAIN tasks /\ input[i] = s /\ WroteKey(i, s)

TruncationInvWitness ==
    /\ mainpc = "done"
    /\ Len(input) > limit
    /\ progress = limit
    /\ input[1] \in DOMAIN street_eras
    /\ input[Len(input)] \notin DOMAIN street_eras

\* a title the handler of DisambiguationError may pass on: the head of a list
FirstCandidates == {c[1] : c \in {l \in CandLists : l # <<>>}}

\* C12: every query a street ever holds is for the batch's city and its title
\* is the street's own name or the first candidate of a list, never a later
\* candidate; an Ambiguous answer with candidates, below the depth cap, leaves
\* the street about to look up exactly <<first candidate, same city>>, and
\* nothing changes that query before the lookup is issued.
FirstCandidateInv ==
    /\ \A i \in DOMAIN tasks :
        /\ tasks[i].city = city_name
        /\ tasks[i].query \in {tasks[i].street} \cup FirstCandidates
    /\ \A q \in DOMAIN memo :
        q[2] = city_name /\ q[1] \in Streets \cup FirstCandidates

FirstCandidateStep(i) ==
    /\ (/\ Looks(i)
        /\ hist'[i].last.kind = "Ambiguous"
        /\ hist'[i].last.options # <<>>
        /\ tasks[i].recursion_count < MaxRecursion)
        => /\ tasks'[i].status = "InFlight" /\ tasks'[i].pc = "page"
           /\ Query(tasks'[i]) = <<hist'[i].last.options[1], tasks[i].city>>
    /\ (AtPage(i) /\ ~Looks(i)) =>
           /\ tasks'[i].status = "InFlight" /\ tasks'[i].pc = "page"
           /\ Query(tasks'[i]) = Query(tasks[i])

FirstCandidateOnly ==
    []FirstCandidateInv /\ [][\A i \in DOMAIN tasks : FirstCandidateStep(i)]_vars

FirstCandidateOnlyWitness ==
    \E i \in DOMAIN tasks :
        /\ AtPage(i)
        /\ tasks[i].recursion_count = 2
        /\ hist[i].last.kind = "Ambiguous"
        /\ Len(hist[i].last.options) = 2
        /\ Query(tasks[i]) = <<hist[i].last.options[1], city_name>>
        /\ tasks[i].query # tasks[i].street

\* the most calls of wikipedia.page one street can cost
MaxCalls == (DefaultMaxRetries + 1) * (MaxRecursion + 1)

\* C13: whatever the knowledge source answers, the calls made for one street
\* never exceed (retry cap + 1) * (depth cap + 1) = 16.  The two counters are
\* separate and each stays within its cap; while a street is in flight its calls
\* are bounded by retry_count full rounds of lookups plus the depth of the
\* present round; a street that has not been started has made no call.
CallsBounded ==
    \A i \in DOMAIN tasks :
        /\ hist[i].calls <= MaxCalls
        /\ tasks[i].retry_count \in 0..DefaultMaxRetries
        /\ tasks[i].recursion_count \in 0..MaxRecursion
        /\ tasks[i].status = "Pending" => hist[i].calls = 0
        /\ AtPage(i) =>
               hist[i].calls <= tasks[i].retry_count * (MaxRecursion + 1)
                                    + tasks[i].recursion_count
        /\ (tasks[i].status = "InFlight" /\ tasks[i].pc = "sleep") =>
               hist[i].calls <= tasks[i].retry_count * (MaxRecursion + 1)

\* two streets of one batch that each cost more than half of MaxCalls: the
\* bound is per street, the batch as a whole has made more than MaxCalls calls
CallsBoundedWitness ==
    \E i, j \in DOMAIN tasks :
        /\ i # j
        /\ Terminal(i) /\ Terminal(j)
        /\ hist[i].calls = 13
        /\ hist[j].calls = 13
        /\ hist[i].calls + hist[j].calls > MaxCalls

\* the probe has applied function fn
Applied(fn) == probe.fn = fn /\ probe.out # None

\* the English ordinal suffix of c
EnglishSuffix(c) ==
    IF (c \div 10) % 10 = 1 THEN <<"t", "h">>
    ELSE IF c % 10 = 1 THEN <<"s", "t">>
    ELSE IF c % 10 = 2 THEN <<"n", "d">>
    ELSE IF c % 10 = 3 THEN <<"r", "d">>
    ELSE <<"t", "h">>

\* C14: for every year Y in 1..MaxYear, year_to_century(Y) is the century
\* ((Y - 1) div 100) + 1 in decimal, followed by its English ordinal suffix
\* (st, nd, rd for a last digit 1, 2, 3 unless the tens digit is 1, th
\* otherwise) and " century".
CenturyHasEnglishOrdinal ==
    (Applied("year_to_century") /\ probe.n \in 1..MaxYear) =>
        LET c == ((probe.n - 1) \div 100) + 1
        IN  probe.out[1] = NatToStr(c) \o EnglishSuffix(c) \o CenturyWord

EraLabels == {"ancient", "medieval", "early modern", "modern", "contemporary", "unknown"}

\* the era the range table gives century c
EraOfCentury(c) ==
    IF 1 <= c /\ c <= 5 THEN "ancient"
    ELSE IF 6 <= c /\ c <= 15 THEN "medieval"
    ELSE IF 16 <= c /\ c <= 18 THEN "early modern"
    ELSE IF 19 <= c /\ c <= 20 THEN "modern"
    ELSE "unknown"

\* C15: for a label whose leading integer is c, century_to_era gives ancient
\* for 1..5, medieval for 6..15, early modern for 16..18, modern for 19..20
\* and unknown for c outside 1..20 when the label does not begin with "20th";
\* for every year Y, the era of year_to_century(Y) is one of EraLabels, the
\* one the table gives the century of Y (Y = 1 ancient, Y = 600 medieval,
\* Y = 1899 modern).
EraRanges ==
    /\ Applied("century_to_era") =>
        LET c == probe.n
            era == probe.out[1]
        IN  /\ c \in 1..20 => era = EraOfCentury(c)
            /\ (c \notin 1..20 /\ ~StartsWith20th(probe.arg)) => era = "unknown"
            /\ era \in EraLabels
    /\ Applied("year_era") =>
        /\ probe.out[1] \in EraLabels
        /\ probe.out[1] = EraOfCentury(((probe.n - 1) \div 100) + 1)
        /\ probe.n = 1 => probe.out[1] = "ancient"
        /\ probe.n = 600 => probe.out[1] = "medieval"
        /\ probe.n = 1899 => probe.out[1] = "modern"

EraRangesWitness ==
    /\ Applied("century_to_era")
    /\ probe.n = 20
    /\ probe.arg = <<"0", "2", "0", "T", "H">> \o CenturyWord
    /\ probe.out = Some("modern")

\* the positions of content that hold a token of the given kind
Positions(content, kind) == {i \in 1..Len(content) : content[i].kind = kind}

\* the least member of a non-empty set of positions
Least(S) == CHOOSE i \in S : \A j \in S : i <= j

\* C16: the era token of a text with a century mention is the number of its
\* first century mention, wherever a 4-digit number stands in the text (before
\* it, after it, or nowhere); with no century mention it is the century label
\* year_to_century gives the first 4-digit number; with neither there is none.
CenturyBeforeYear ==
    Applied("extract") =>
        LET content == probe.arg
            era == probe.out[1].era
            cs == Positions(content, "century")
            ys == Positions(content, "year")
        IN  IF cs # {} THEN era = Some(content[Least(cs)].digits)
            ELSE IF ys # {}
            THEN era = Some(year_to_century(StrToInt(content[Least(ys)].digits)))
            ELSE era = None

CenturyBeforeYearWitness ==
    /\ Applied("extract")
    /\ probe.arg = <<YearTok(<<"1", "8", "4", "8">>), CenturyTok(<<"7">>),
                    CenturyTok(<<"2", "0">>)>>
    /\ probe.out[1].era = Some(<<"7">>)

\* the template numbers that match somewhere in content
Templates(content) == {content[i].tmpl : i \in Positions(content, "context")}

\* C17: the context is one phrase: that of the first match of the first
\* template, in the order of the list, that matches anywhere in the text; a
\* text matching "named after X." and "in honor of Y." has context X, wherever
\* the two stand, and a text that matches no template has none.
FirstTemplateWins ==
    Applied("extract") =>
        LET content == probe.arg
            context == probe.out[1].context
            ts == Templates(content)
        IN  IF ts = {} THEN context = None
            ELSE LET t == Least(ts)
                     at == Least({i \in Positions(content, "context") :
                                     content[i].tmpl = t})
                 IN  /\ context = Some(content[at].phrase)
                     /\ (t = 1 /\ 3 \in ts) => context # Some("Y")

FirstTemplateWinsWitness ==
    /\ Applied("extract")
    /\ probe.arg = <<ContextTok(3, "Y"), Word, ContextTok(1, "X")>>
    /\ probe.out[1].context = Some("X")

HasDigit(s) == \E k \in 1..Len(s) : IsDigit(s[k])

\* C18: century_to_era never fails inside the pipeline: every era token the
\* extraction returns (the digits of a century mention, or the label built by
\* year_to_century from a 4-digit number, 0000 included) is non-empty and
\* holds a digit, the label of every year holds a digit, and process_street on
\* the extracted pair never raises: it returns None when there is no era token
\* and otherwise a record whose era is one of EraLabels.
NoParseError ==
    /\ Applied("extract") =>
        LET era == probe.out[1].era
        IN  era # None => (era[1] # <<>> /\ HasDigit(era[1]))
    /\ Applied("year_to_century") =>
        /\ HasDigit(probe.out[1])
        /\ century_to_era(probe.out[1]) # "ParseError"
    /\ Applied("year_era") => probe.out[1] # "ParseError"
    /\ Applied("process_street") =>
        LET result == probe.out[1]
            has_era == \E i \in 1..Len(probe.arg) :
                           probe.arg[i].kind \in {"century", "year"}
        IN  /\ ~result.exc
            /\ result.value # None <=> has_era
            /\ result.value # None => result.value[1].data.era \in EraLabels

NoParseErrorWitness ==
    /\ Applied("process_street")
    /\ probe.arg = <<Word, YearTok(<<"0", "0", "0", "0">>)>>
    /\ probe.out[1] = [exc |-> FALSE,
                       value |-> Some([street |-> "Main St",
                                       data |-> [era |-> "unknown", context |-> None]])]

StoredEras == {"ancient", "medieval", "early modern", "modern", "unknown"}

\* C19: every era held in street_eras, in the value the batch returns and in
\* the result of a finished future is one of ancient, medieval, early modern,
\* modern, unknown, never contemporary; a future whose article gave a label
\* that begins with "20th" carries the era modern.
ContemporaryNeverStored ==
    /\ \A s \in DOMAIN street_eras : street_eras[s].era \in StoredEras
    /\ returned # None =>
           \A s \in DOMAIN returned[1] : returned[1][s].era \in StoredEras
    /\ \A i \in DOMAIN tasks :
        tasks[i].result.value # None =>
            /\ tasks[i].result.value[1].data.era \in StoredEras
            /\ (/\ hist[i].last.kind = "Found"
                /\ StartsWith20th(ExtractionRecord[hist[i].last.text].era[1]))
                => tasks[i].result.value[1].data.era = "modern"

ContemporaryNeverStoredWitness ==
    /\ mainpc = "done"
    /\ \E i \in DOMAIN tasks :
        /\ tasks[i].status = "Recorded"
        /\ hist[i].last.kind = "Found"
        /\ ExtractionRecord[hist[i].last.text].era =
               Some(<<"2", "0", "t", "h">> \o CenturyWord)
        /\ returned[1][tasks[i].street].era = "modern"

\* every title that occurs in a candidate list
CandidateTitles == UNION {{c[k] : k \in 1..Len(c)} : c \in CandLists}

\* C20: every key of street_eras (and of the returned mapping) is a name of the
\* truncated list and no candidate title; the record a future returns carries
\* the name it was submitted with, also when the article was found under a
\* candidate title.
KeysAreSubmittedNames ==
    /\ \A s \in DOMAIN street_eras :
        /\ \E i \in 1..Len(street_names) : street_names[i] = s
        /\ s \notin CandidateTitles
    /\ returned # None =>
           \A s \in DOMAIN returned[1] :
               \E i \in 1..Len(street_names) : street_names[i] = s
    /\ \A i \in DOMAIN tasks :
        tasks[i].result.value # None =>
            tasks[i].result.value[1].street = street_names[i]

KeysAreSubmittedNamesWitness ==
    /\ det /\ mainpc = "done"
    /\ \E i \in DOMAIN tasks :
        /\ tasks[i].status = "Recorded"
        /\ <<street_names[i], city_name>> \in DOMAIN memo
        /\ memo[<<street_names[i], city_name>>].kind = "Ambiguous"
        /\ <<"Cand1", city_name>> \in DOMAIN memo
        /\ memo[<<"Cand1", city_name>>].kind = "Found"
        /\ street_names[i] \in DOMAIN street_eras
        /\ "Cand1" \notin DOMAIN street_eras

====
